---- MODULE Spec2Model ----
(***************************************************************************)
(* Verification model of elucidate-chess (apps/api/app).                   *)
(*                                                                         *)
(*   services/engine.py   EngineService: start / stop / analyze_position   *)
(*                        on one session, run by asyncio tasks; the        *)
(*                        decoding of the engine's answer; the module's    *)
(*                        get_engine_service.  An action is the code       *)
(*                        between two suspension points (await) of a       *)
(*                        coroutine.                                       *)
(*   services/pgn.py      PGNService: parse_pgn / _parse_single_game /     *)
(*                        export_to_pgn.                                   *)
(*   schemas/mutations.py _parse_date.                                     *)
(*                                                                         *)
(* The rules library (python-chess) is outside the repository.  Its board  *)
(* is modelled by a small board game with the same interface: a position   *)
(* has a placement, a side to move and a move number; san() needs the      *)
(* position (it disambiguates by origin square only when two pieces can    *)
(* reach the target), uci() does not; fen() run-length encodes the         *)
(* placement.  Movetext tokens are SAN moves: the null-move token is not   *)
(* part of the modelled alphabet.  chess.pgn.read_game is modelled as the  *)
(* library documents it: an error in a game is recorded in game.errors     *)
(* and the rest of its movetext skipped, never raised.  The handle that    *)
(* popen_uci returns is modelled by its calls alone: analyse() suspends    *)
(* the caller and later returns or raises, quit() returns when the         *)
(* process has exited.                                                     *)
(***************************************************************************)
EXTENDS Integers, Sequences, FiniteSets, TLC

(***************************************************************************)
(* Bounds                                                                  *)
(***************************************************************************)
NumTasks == 2     \* tasks calling into one session
MaxProcs == 2     \* engine processes that exist at the same time
MaxGames == 2     \* largest max_games passed to parse_pgn
MaxTokens == 2    \* move tokens read per game block, moves passed to export
MaxSlots == 2     \* principal-variation slots in one engine answer

Tasks == 1..NumTasks
Procs == 1..MaxProcs

VARIABLES
    engine,       \* self.engine: 0 is None, else the process behind the handle
    lockHolder,   \* self._lock: 0 when free, else the task inside `async with`
    lockWaiters,  \* self._lock: tasks suspended in acquire(), arrival order
    pc,           \* per task: the await it is suspended at ("idle" between calls)
    handle,       \* per task: the handle it evaluated self.engine to before awaiting
    procState,    \* per process: "none" (not spawned), "alive", "dead", "exited"
    quits,        \* per process: number of quit commands it was sent
    callOrder,    \* tasks suspended in engine.analyse, in call order
    failed,       \* an analysis raised an engine error since the last spawn
    afterFail,    \* per task in engine.analyse: it was called with `failed` set
    ret           \* the call that returned last: task, outcome, and for an
                  \* analyze_position call whether its fen parses and whether
                  \* it was called with `failed` set

VARIABLES
    pgnPc,        \* parse_pgn: "idle" (not called), "loop" (at the while test),
                  \* "game" (inside read_game), "done" (returned)
    max_games,    \* parse_pgn: the max_games argument
    game_count,   \* parse_pgn: game_count
    games,        \* parse_pgn: games
    errors,       \* parse_pgn: errors
    cur,          \* read_game: the Game under construction
    result,       \* parse_pgn: the PGNImportResult returned
    nIllegal,     \* blocks read so far that held a move token illegal where it stood
    nBadHeader,   \* blocks read so far whose FEN tag does not parse
    blocks,       \* the input read so far: per block, in input order, whether
                  \* its header gives a board
    unread        \* blocks of the input left unread when parse_pgn returned

VARIABLES
    xpc,          \* export_to_pgn: "idle" (not called), "loop" (at the for
                  \* statement), "done" (returned), "raised"
    xmoves,       \* export_to_pgn: the moves argument
    xmeta,        \* export_to_pgn: the metadata argument
    xfen,         \* export_to_pgn: the fen_start argument
    xi,           \* export_to_pgn: moves of the list the loop has gone through
    node,         \* export_to_pgn: the moves added from game down to node
    xboard,       \* export_to_pgn: board
    warnings,     \* export_to_pgn: logger.warning calls made
    text,         \* the text the last export returned
    text1,        \* the text the first export returned
    again         \* the running or last export was given the moves parsed
                  \* from text1

VARIABLES
    dpc,          \* decoding in analyze_position: "idle", "loop", "done"
    info,         \* analyze_position: info, the list engine.analyse returned
    dboard,       \* analyze_position: board, the position analysed
    didx,         \* analyze_position: slots of info the loop has gone through
    best_moves,   \* analyze_position: best_moves
    logged        \* _parse_analysis_info: logger.error calls made

VARIABLES
    tpc,          \* _parse_date: "idle" (not called), "done" (returned)
    date_str,     \* _parse_date: the date_str argument
    date          \* _parse_date: the value returned

VARIABLES
    service,      \* _engine_service: 0 is None, 1 the EngineService created
    got           \* per task: get_engine_service has returned the service to it

evars == <<engine, lockHolder, lockWaiters, pc, handle, procState, quits,
           callOrder, failed, afterFail, ret>>

pvars == <<pgnPc, max_games, game_count, games, errors, cur, result, nIllegal,
           nBadHeader, blocks, unread>>

xvars == <<xpc, xmoves, xmeta, xfen, xi, node, xboard, warnings, text, text1, again>>

dvars == <<dpc, info, dboard, didx, best_moves, logged>>

tvars == <<tpc, date_str, date>>

svars == <<service, got>>

\* What the session's methods leave alone (the module's _engine_service is
\* left to their callers), and what parse_pgn, export_to_pgn, the decoding
\* and _parse_date leave alone.
purevars == <<pvars, xvars, dvars, tvars>>

nonpgnvars == <<evars, svars, xvars, dvars, tvars>>

nonexportvars == <<evars, svars, pvars, dvars, tvars>>

nondecodevars == <<evars, svars, pvars, xvars, tvars>>

nondatevars == <<evars, svars, pvars, xvars, dvars>>

vars == <<evars, svars, pvars, xvars, dvars, tvars>>

(***************************************************************************)
(* Position model (stands for chess.Board)                                 *)
(***************************************************************************)
Squares == 1..4
Digits == <<"1", "2", "3", "4">>
SanTokens == ({0} \cup Squares) \X Squares
Pieces == {"N", "n"}

\* The number a placement character stands for: a piece fills one square,
\* a digit that many empty squares.
DigitVal(c) == CHOOSE i \in 1..Len(Digits) : Digits[i] = c

RECURSIVE Width(_)
Width(pl) ==
    IF pl = <<>> THEN 0
    ELSE (IF Head(pl) \in Pieces THEN 1 ELSE DigitVal(Head(pl))) + Width(Tail(pl))

\* chess.Board(fen) raises ValueError unless the placement describes every
\* square exactly once, the side to move is "w" or "b" and the move number
\* is a positive integer.
ValidFen(f) ==
    /\ Len(f) = 3
    /\ \A i \in 1..Len(f[1]) : f[1][i] \in Pieces \/ \E d \in 1..Len(Digits) : Digits[d] = f[1][i]
    /\ \A i \in 1..(Len(f[1]) - 1) : f[1][i] \in Pieces \/ f[1][i + 1] \in Pieces
    /\ Width(f[1]) = Cardinality(Squares)
    /\ f[2] \in {"w", "b"}
    /\ f[3] >= 1

RECURSIVE Expand(_)
Expand(pl) ==
    IF pl = <<>> THEN <<>>
    ELSE (IF Head(pl) \in Pieces THEN <<Head(pl)>>
          ELSE [i \in 1..DigitVal(Head(pl)) |-> "."]) \o Expand(Tail(pl))

BoardFromFen(f) == [board |-> Expand(f[1]), turn |-> f[2], fullmove |-> f[3]]

\* Board.fen(): empty squares are written as the length of their run.
RECURSIVE Compress(_, _)
Compress(b, run) ==
    IF b = <<>> THEN (IF run = 0 THEN <<>> ELSE <<Digits[run]>>)
    ELSE IF Head(b) = "." THEN Compress(Tail(b), run + 1)
    ELSE (IF run = 0 THEN <<>> ELSE <<Digits[run]>>) \o <<Head(b)>> \o Compress(Tail(b), 0)

board_fen(pos) == <<Compress(pos.board, 0), pos.turn, pos.fullmove>>

Own(pos) == IF pos.turn = "w" THEN "N" ELSE "n"

Dist(a, b) == IF a < b THEN b - a ELSE a - b

\* Board.legal_moves: a piece of the side to move steps or jumps one or two
\* squares onto a square its own side does not occupy.  A move is <<from, to>>.
legal_moves(pos) ==
    {m \in Squares \X Squares :
        /\ pos.board[m[1]] = Own(pos)
        /\ Dist(m[1], m[2]) \in {1, 2}
        /\ pos.board[m[2]] # Own(pos)}

\* Board.push(move)
push(pos, m) ==
    [board |-> [pos.board EXCEPT ![m[1]] = ".", ![m[2]] = Own(pos)],
     turn |-> IF pos.turn = "w" THEN "b" ELSE "w",
     fullmove |-> IF pos.turn = "b" THEN pos.fullmove + 1 ELSE pos.fullmove]

\* A san that never writes the origin square.
sanWithoutOrigin(pos, m) == <<0, m[2]>>

\* Board.san(move): the target square, preceded by the origin square only
\* when another piece of the mover could go there too.  <<0, to>> has no origin.
san(pos, m) ==
    IF \E o \in legal_moves(pos) : o[2] = m[2] /\ o[1] # m[1]
    THEN <<m[1], m[2]>>
    ELSE <<0, m[2]>>

\* Board.parse_san(token): the legal moves the token can denote.  One: that
\* move.  None or several: ValueError (illegal or ambiguous san).
SanCandidates(pos, tok) ==
    {m \in legal_moves(pos) : m[2] = tok[2] /\ (tok[1] = 0 \/ tok[1] = m[1])}

SanParses(pos, tok) == Cardinality(SanCandidates(pos, tok)) = 1

parse_san(pos, tok) == CHOOSE m \in SanCandidates(pos, tok) : TRUE

\* Move.uci() and Move.from_uci(): origin and target written as two digits.
uci(m) == 10 * m[1] + m[2]

UciWellFormed(u) == (u \div 10) \in Squares /\ (u % 10) \in Squares

from_uci(u) == <<u \div 10, u % 10>>

\* chess.STARTING_FEN and the position it denotes
STARTING_FEN == <<<<"N", "N", "1", "n">>, "w", 1>>

\* FEN texts a caller passes to analyze_position: two that parse, one whose
\* placement is a square short, one whose side to move is no colour.
FenInputs ==
    { STARTING_FEN,
      <<<<"N", "2", "n">>, "b", 3>>,
      <<<<"N", "1", "n">>, "w", 1>>,
      <<<<"N", "2", "n">>, "x", 1>> }

(***************************************************************************)
(* asyncio.Lock (self._lock): FIFO, handed to the first waiter on release  *)
(***************************************************************************)
LockFree == lockHolder = 0 /\ lockWaiters = <<>>

Release ==
    IF lockWaiters = <<>>
    THEN /\ lockHolder' = 0
         /\ lockWaiters' = <<>>
    ELSE /\ lockHolder' = Head(lockWaiters)
         /\ lockWaiters' = Tail(lockWaiters)

Enqueue(t) ==
    /\ lockWaiters' = Append(lockWaiters, t)
    /\ UNCHANGED lockHolder

RemoveTask(q, t) == SelectSeq(q, LAMBDA x : x # t)

\* A process id no handle refers to any more names the next spawned process.
Fresh(p) ==
    /\ procState[p] \in {"none", "exited"}
    /\ engine # p
    /\ \A t \in Tasks : handle[t] # p

Returned(t, r, ok, late) == [task |-> t, how |-> r, fenOk |-> ok, afterFail |-> late]

\* The call of task t ends (returns or raises) with outcome r.
Finish(t, r) ==
    /\ pc' = [pc EXCEPT ![t] = "idle"]
    /\ ret' = Returned(t, r, TRUE, FALSE)

(***************************************************************************)
(* EngineService.start                                                     *)
(***************************************************************************)
\* start() without its `if self.engine is not None: return`.
StartCallUnchecked(t) ==
    /\ pc[t] = "idle"
    /\ IF LockFree
       THEN /\ lockHolder' = t
            /\ pc' = [pc EXCEPT ![t] = "start_spawn"]
            /\ UNCHANGED <<lockWaiters, ret>>
       ELSE /\ Enqueue(t)
            /\ pc' = [pc EXCEPT ![t] = "start_wait"]
            /\ UNCHANGED ret
    /\ UNCHANGED <<engine, handle, procState, quits, callOrder, failed, afterFail>>
    /\ UNCHANGED purevars

\* `if self.engine is not None: return`, else enter `async with self._lock`
\* and, when the lock is free, run on to `await popen_uci(...)`.
StartCall(t) ==
    /\ pc[t] = "idle"
    /\ IF engine # 0
       THEN /\ Finish(t, "already_started")
            /\ UNCHANGED <<lockHolder, lockWaiters>>
       ELSE IF LockFree
       THEN /\ lockHolder' = t
            /\ pc' = [pc EXCEPT ![t] = "start_spawn"]
            /\ UNCHANGED <<lockWaiters, ret>>
       ELSE /\ Enqueue(t)
            /\ pc' = [pc EXCEPT ![t] = "start_wait"]
            /\ UNCHANGED ret
    /\ UNCHANGED <<engine, handle, procState, quits, callOrder, failed, afterFail>>
    /\ UNCHANGED purevars

\* The waiter is handed the lock and runs on to `await popen_uci(...)`.
StartResume(t) ==
    /\ pc[t] = "start_wait"
    /\ lockHolder = t
    /\ pc' = [pc EXCEPT ![t] = "start_spawn"]
    /\ UNCHANGED <<engine, lockHolder, lockWaiters, handle, procState, quits,
                   callOrder, failed, afterFail, ret>>
    /\ UNCHANGED purevars

\* popen_uci returns: `self.engine = engine`, the lock is released.
StartSpawnOk(t) ==
    /\ pc[t] = "start_spawn"
    /\ \E p \in Procs :
          /\ Fresh(p)
          /\ \A q \in Procs : Fresh(q) => p <= q
          /\ procState' = [procState EXCEPT ![p] = "alive"]
          /\ quits' = [quits EXCEPT ![p] = 0]
          /\ engine' = p
    /\ failed' = FALSE
    /\ Release
    /\ Finish(t, "started")
    /\ UNCHANGED <<handle, callOrder, afterFail>>
    /\ UNCHANGED purevars

\* popen_uci raises (binary missing, handshake failed): the exception leaves
\* the `async with` block, which releases the lock, and is re-raised.
StartSpawnFail(t) ==
    /\ pc[t] = "start_spawn"
    /\ Release
    /\ Finish(t, "unavailable")
    /\ UNCHANGED <<engine, handle, procState, quits, callOrder, failed, afterFail>>
    /\ UNCHANGED purevars

(***************************************************************************)
(* EngineService.stop                                                      *)
(***************************************************************************)
\* `await self.engine.quit()` up to its suspension: the quit command is sent.
SendQuit(t) ==
    /\ handle' = [handle EXCEPT ![t] = engine]
    /\ quits' = [quits EXCEPT ![engine] = @ + 1]
    /\ pc' = [pc EXCEPT ![t] = "stop_quit"]
    /\ UNCHANGED ret

\* `if self.engine is None: return`, else enter `async with self._lock`.
StopCall(t) ==
    /\ pc[t] = "idle"
    /\ IF engine = 0
       THEN /\ Finish(t, "not_running")
            /\ UNCHANGED <<lockHolder, lockWaiters, handle, quits>>
       ELSE IF LockFree
       THEN /\ lockHolder' = t
            /\ UNCHANGED lockWaiters
            /\ SendQuit(t)
       ELSE /\ Enqueue(t)
            /\ pc' = [pc EXCEPT ![t] = "stop_wait"]
            /\ UNCHANGED <<handle, quits, ret>>
    /\ UNCHANGED <<engine, procState, callOrder, failed, afterFail>>
    /\ UNCHANGED purevars

\* The waiter is handed the lock and evaluates `self.engine.quit()`: with
\* self.engine None by now that raises AttributeError out of the
\* `async with` block.
StopResume(t) ==
    /\ pc[t] = "stop_wait"
    /\ lockHolder = t
    /\ IF engine = 0
       THEN /\ Release
            /\ Finish(t, "attribute_error")
            /\ UNCHANGED <<handle, quits>>
       ELSE /\ SendQuit(t)
            /\ UNCHANGED <<lockHolder, lockWaiters>>
    /\ UNCHANGED <<engine, procState, callOrder, failed, afterFail>>
    /\ UNCHANGED purevars

\* stop() without its `self.engine = None`.
StopDoneKeepsHandle(t) ==
    /\ pc[t] = "stop_quit"
    /\ procState' = [procState EXCEPT ![handle[t]] = "exited"]
    /\ handle' = [handle EXCEPT ![t] = 0]
    /\ Release
    /\ Finish(t, "stopped")
    /\ UNCHANGED <<engine, quits, callOrder, failed, afterFail>>
    /\ UNCHANGED purevars

\* quit() returns when the process has exited: `self.engine = None`.
StopDone(t) ==
    /\ pc[t] = "stop_quit"
    /\ procState' = [procState EXCEPT ![handle[t]] = "exited"]
    /\ engine' = 0
    /\ handle' = [handle EXCEPT ![t] = 0]
    /\ Release
    /\ Finish(t, "stopped")
    /\ UNCHANGED <<quits, callOrder, failed, afterFail>>
    /\ UNCHANGED purevars

(***************************************************************************)
(* EngineService.analyze_position                                          *)
(***************************************************************************)
\* The two checks in the other order: the FEN first.
PrecheckFenFirst(fen) ==
    IF ~ValidFen(fen) THEN "invalid_fen"
    ELSE IF engine = 0 THEN "not_ready"
    ELSE "go"

\* The checks before the engine is used: self.engine first, then the FEN.
\* "go" when both pass.
Precheck(fen) ==
    IF engine = 0 THEN "not_ready"
    ELSE IF ~ValidFen(fen) THEN "invalid_fen"
    ELSE "go"

\* The request (position and search commands) is handed to
\* self.engine.analyse and the task suspends until the terminal result.
\* No lock is taken: analyze_position has no `async with self._lock`.
Submit(t) ==
    /\ handle' = [handle EXCEPT ![t] = engine]
    /\ callOrder' = Append(callOrder, t)
    /\ afterFail' = [afterFail EXCEPT ![t] = failed]
    /\ pc' = [pc EXCEPT ![t] = "analysing"]
    /\ UNCHANGED ret

AnalyzeCall(t, fen) ==
    /\ pc[t] = "idle"
    /\ IF Precheck(fen) # "go"
       THEN /\ pc' = [pc EXCEPT ![t] = "idle"]
            /\ ret' = Returned(t, Precheck(fen), ValidFen(fen), FALSE)
            /\ UNCHANGED <<handle, callOrder, afterFail>>
       ELSE Submit(t)
    /\ UNCHANGED <<engine, lockHolder, lockWaiters, procState, quits, failed>>
    /\ UNCHANGED purevars

\* engine.analyse returns or raises.  A live process answers with the
\* analysis, with output that cannot be parsed, or terminates; a process
\* that is gone can only make the call raise.
Outcomes(p) ==
    IF procState[p] = "alive" THEN {"result", "garbled", "terminated"}
    ELSE {"terminated"}

\* `except Exception: raise` for an engine error, else the decoded result.
\* Nothing is recorded on the session in either case.
AnalyzeReturn(t, out) ==
    /\ pc[t] = "analysing"
    /\ out \in Outcomes(handle[t])
    /\ procState' = IF out = "terminated" /\ procState[handle[t]] = "alive"
                    THEN [procState EXCEPT ![handle[t]] = "dead"]
                    ELSE procState
    /\ failed' = IF out = "result" THEN failed ELSE TRUE
    /\ pc' = [pc EXCEPT ![t] = "idle"]
    /\ ret' = Returned(t, IF out = "result" THEN "result" ELSE "engine_error",
                       TRUE, afterFail[t])
    /\ handle' = [handle EXCEPT ![t] = 0]
    /\ afterFail' = [afterFail EXCEPT ![t] = FALSE]
    /\ callOrder' = RemoveTask(callOrder, t)
    /\ UNCHANGED <<engine, lockHolder, lockWaiters, quits>>
    /\ UNCHANGED purevars

(***************************************************************************)
(* PGNService.parse_pgn                                                    *)
(*                                                                         *)
(* The text is read one game block at a time by chess.pgn.read_game: a     *)
(* block is an optional FEN tag and a run of move tokens up to the result  *)
(* token.  The blocks and tokens of the input are chosen as they are read. *)
(***************************************************************************)
NoFen == <<>>

\* FEN tags an input block may carry: none, a position with Black to move,
\* and a text that is no FEN (its placement is a square short).
FenTags ==
    { NoFen,
      <<<<"N", "1", "N", "n">>, "b", 1>>,
      <<<<"N", "1", "n">>, "w", 1>> }

NoGame == [fenTag |-> NoFen, board |-> BoardFromFen(STARTING_FEN), mainline |-> <<>>,
           read |-> 0, skip |-> FALSE]

\* Game.board(): the position of the FEN tag, else the standard one.
\* chess.Board(fen) raises ValueError on a tag that is no FEN.
HeaderOk(game) == game.fenTag = NoFen \/ ValidFen(game.fenTag)

GameBoard(game) ==
    IF game.fenTag = NoFen THEN BoardFromFen(STARTING_FEN) ELSE BoardFromFen(game.fenTag)

\* The same loop with the push moved before the san.
RECURSIVE WalkMainlinePushFirst(_, _, _, _)
WalkMainlinePushFirst(board, moves, sans, ucis) ==
    IF moves = <<>> THEN [board |-> board, moves_san |-> sans, moves |-> ucis]
    ELSE WalkMainlinePushFirst(push(board, Head(moves)), Tail(moves),
                      Append(sans, san(push(board, Head(moves)), Head(moves))),
                      Append(ucis, uci(Head(moves))))

\* The loop of _parse_single_game over game.mainline_moves(), from `board`:
\* san of the move on the board before it, its uci, then the push.
RECURSIVE WalkMainline(_, _, _, _)
WalkMainline(board, moves, sans, ucis) ==
    IF moves = <<>> THEN [board |-> board, moves_san |-> sans, moves |-> ucis]
    ELSE WalkMainline(push(board, Head(moves)), Tail(moves),
                      Append(sans, san(board, Head(moves))),
                      Append(ucis, uci(Head(moves))))

Walk(board, moves) == WalkMainline(board, moves, <<>>, <<>>)

\* _parse_single_game(game), for a game whose header gives a board.
ParsedGame(game) ==
    LET w == Walk(GameBoard(game), game.mainline)
    IN [moves |-> w.moves,
        moves_san |-> w.moves_san,
        fen_start |-> board_fen(GameBoard(game)),
        fen_final |-> board_fen(w.board),
        move_count |-> Len(w.moves)]

\* The same result with success meaning that no block failed.
ImportResultAllOrNothing ==
    [success |-> Len(errors) = 0,
     games_parsed |-> Len(games),
     games_imported |-> 0,
     errors |-> errors,
     games |-> games]

\* PGNImportResult(...) of the normal return.
ImportResult ==
    [success |-> Len(games) > 0,
     games_parsed |-> Len(games),
     games_imported |-> 0,
     errors |-> errors,
     games |-> games]

NoResult == [success |-> FALSE, games_parsed |-> 0, games_imported |-> 0,
             errors |-> <<>>, games |-> <<>>]

\* parse_pgn(pgn_text, max_games) is called.
ParseCall(mg) ==
    /\ pgnPc = "idle"
    /\ pgnPc' = "loop"
    /\ max_games' = mg
    /\ game_count' = 0
    /\ games' = <<>>
    /\ errors' = <<>>
    /\ blocks' = <<>>
    /\ unread' = 0
    /\ UNCHANGED <<cur, result, nIllegal, nBadHeader>>
    /\ UNCHANGED nonpgnvars

\* `while game_count < max_games`: read_game finds another block and reads
\* its tags.  With a FEN tag that does not parse it records the error and
\* skips the movetext.
BeginGame(tag) ==
    /\ pgnPc = "loop"
    /\ game_count < max_games
    /\ pgnPc' = "game"
    /\ cur' = [fenTag |-> tag,
               board |-> IF tag # NoFen /\ ValidFen(tag) THEN BoardFromFen(tag)
                         ELSE BoardFromFen(STARTING_FEN),
               mainline |-> <<>>,
               read |-> 0,
               skip |-> ~(tag = NoFen \/ ValidFen(tag))]
    /\ nBadHeader' = IF tag = NoFen \/ ValidFen(tag) THEN nBadHeader ELSE nBadHeader + 1
    /\ blocks' = Append(blocks, tag = NoFen \/ ValidFen(tag))
    /\ UNCHANGED <<max_games, game_count, games, errors, result, nIllegal, unread>>
    /\ UNCHANGED nonpgnvars

\* read_game reads a move token.  A token parse_san rejects is recorded in
\* game.errors and the rest of the movetext is skipped; nothing is raised.
ReadToken(tok) ==
    /\ pgnPc = "game"
    /\ cur.read < MaxTokens
    /\ IF cur.skip
       THEN UNCHANGED <<cur, nIllegal>>
       ELSE IF SanParses(cur.board, tok)
       THEN /\ cur' = [cur EXCEPT !.mainline = Append(@, parse_san(cur.board, tok)),
                                  !.board = push(@, parse_san(cur.board, tok)),
                                  !.read = @ + 1]
            /\ UNCHANGED nIllegal
       ELSE /\ cur' = [cur EXCEPT !.skip = TRUE, !.read = @ + 1]
            /\ nIllegal' = nIllegal + 1
    /\ UNCHANGED <<pgnPc, max_games, game_count, games, errors, result, nBadHeader,
                   blocks, unread>>
    /\ UNCHANGED nonpgnvars

\* The same loop body with the message numbered by the place the game would
\* have taken in games.
EndGameNumberedByList ==
    /\ pgnPc = "game"
    /\ pgnPc' = "loop"
    /\ game_count' = game_count + 1
    /\ IF HeaderOk(cur)
       THEN /\ games' = Append(games, ParsedGame(cur))
            /\ UNCHANGED errors
       ELSE /\ errors' = Append(errors, Len(games) + 1)
            /\ UNCHANGED games
    /\ cur' = NoGame
    /\ UNCHANGED <<max_games, result, nIllegal, nBadHeader, blocks, unread>>
    /\ UNCHANGED nonpgnvars

\* read_game returns the game at its result token; the loop body counts it
\* and appends _parse_single_game(game) to games, or the message of the
\* exception it raised to errors.
EndGame ==
    /\ pgnPc = "game"
    /\ pgnPc' = "loop"
    /\ game_count' = game_count + 1
    /\ IF HeaderOk(cur)
       THEN /\ games' = Append(games, ParsedGame(cur))
            /\ UNCHANGED errors
       ELSE /\ errors' = Append(errors, game_count + 1)
            /\ UNCHANGED games
    /\ cur' = NoGame
    /\ UNCHANGED <<max_games, result, nIllegal, nBadHeader, blocks, unread>>
    /\ UNCHANGED nonpgnvars

\* The loop ends and the PGNImportResult is returned: read_game returned
\* None (nothing is left unread), or game_count has reached max_games and
\* read_game is not called again (whatever is left stays unread).
ParseReturn ==
    /\ pgnPc = "loop"
    /\ pgnPc' = "done"
    /\ result' = ImportResult
    /\ \E n \in 0..1 :
          /\ n > 0 => game_count >= max_games
          /\ unread' = n
    /\ UNCHANGED <<max_games, game_count, games, errors, cur, nIllegal, nBadHeader,
                   blocks>>
    /\ UNCHANGED nonpgnvars

(***************************************************************************)
(* PGNService.export_to_pgn                                                *)
(*                                                                         *)
(* The text is kept as what a reader of it sees: the headers, the FEN tag  *)
(* (game.setup writes the board's own fen) and the SAN movetext that the   *)
(* StringExporter writes while replaying the mainline from game.board().   *)
(***************************************************************************)
NoMeta == <<>>

MetaInputs == {NoMeta, [Result |-> "1-0"]}

\* moves a caller passes: every pair of distinct squares in coordinate form
\* and two texts that are no coordinate pair.
UciInputs == {uci(m) : m \in {q \in Squares \X Squares : q[1] # q[2]}} \cup {0, 15}

\* fen_start a caller passes: None, the standard position, a position with
\* Black to move, and a text that is no FEN.
ExportFens ==
    { NoFen,
      STARTING_FEN,
      <<<<"N", "1", "N", "n">>, "b", 1>>,
      <<<<"N", "1", "n">>, "w", 1>> }

MoveLists(n) == UNION {[1..k -> UciInputs] : k \in 0..n}

NoText == [headers |-> NoMeta, fenTag |-> NoFen, movetext |-> <<>>]

\* chess.pgn.Game() has Result "*" until the metadata sets it.
Headers(meta) == IF meta = NoMeta THEN [Result |-> "*"] ELSE meta

\* `if fen_start and fen_start != chess.STARTING_FEN: game.setup(fen_start)`
SetsUp(fen) == fen # NoFen /\ fen # STARTING_FEN

\* `chess.Board(fen_start) if fen_start else chess.Board()`
StartBoard(fen) == IF fen = NoFen THEN BoardFromFen(STARTING_FEN) ELSE BoardFromFen(fen)

\* game.accept(StringExporter(...)) of the game built so far.
Rendered ==
    [headers |-> Headers(xmeta),
     fenTag |-> IF SetsUp(xfen) THEN board_fen(BoardFromFen(xfen)) ELSE NoFen,
     movetext |-> Walk(StartBoard(xfen), node).moves_san]

\* export_to_pgn(moves, metadata, fen_start) is called and runs up to the
\* for statement; chess.Board(fen_start) raises on a text that is no FEN.
Export(ms, meta, fen) ==
    /\ xmoves' = ms
    /\ xmeta' = meta
    /\ xfen' = fen
    /\ xi' = 0
    /\ node' = <<>>
    /\ warnings' = 0
    /\ IF fen = NoFen \/ ValidFen(fen)
       THEN /\ xpc' = "loop"
            /\ xboard' = StartBoard(fen)
       ELSE /\ xpc' = "raised"
            /\ UNCHANGED xboard

ExportCall ==
    /\ xpc = "idle"
    /\ \E ms \in MoveLists(MaxTokens), meta \in MetaInputs, fen \in ExportFens :
          Export(ms, meta, fen)
    /\ UNCHANGED <<text, text1, again>>
    /\ UNCHANGED nonexportvars

\* The loop body with `break` where the warnings are.
ExportStepBreaks ==
    /\ xpc = "loop"
    /\ xi < Len(xmoves)
    /\ IF UciWellFormed(xmoves[xi + 1]) /\ from_uci(xmoves[xi + 1]) \in legal_moves(xboard)
       THEN /\ node' = Append(node, from_uci(xmoves[xi + 1]))
            /\ xboard' = push(xboard, from_uci(xmoves[xi + 1]))
            /\ xi' = xi + 1
            /\ UNCHANGED warnings
       ELSE /\ xi' = Len(xmoves)
            /\ UNCHANGED <<node, xboard, warnings>>
    /\ UNCHANGED <<xpc, xmoves, xmeta, xfen, text, text1, again>>
    /\ UNCHANGED nonexportvars

\* One pass of `for move_uci in moves`: from_uci raises on a text that is no
\* coordinate pair (caught, warning); a move of board.legal_moves is added
\* and pushed; any other move is skipped with a warning.
ExportStep ==
    /\ xpc = "loop"
    /\ xi < Len(xmoves)
    /\ IF ~UciWellFormed(xmoves[xi + 1])
       THEN /\ warnings' = warnings + 1
            /\ UNCHANGED <<node, xboard>>
       ELSE IF from_uci(xmoves[xi + 1]) \in legal_moves(xboard)
       THEN /\ node' = Append(node, from_uci(xmoves[xi + 1]))
            /\ xboard' = push(xboard, from_uci(xmoves[xi + 1]))
            /\ UNCHANGED warnings
       ELSE /\ warnings' = warnings + 1
            /\ UNCHANGED <<node, xboard>>
    /\ xi' = xi + 1
    /\ UNCHANGED <<xpc, xmoves, xmeta, xfen, text, text1, again>>
    /\ UNCHANGED nonexportvars

\* The loop is over: the text is rendered and returned.
ExportReturn ==
    /\ xpc = "loop"
    /\ xi = Len(xmoves)
    /\ xpc' = "done"
    /\ text' = Rendered
    /\ text1' = IF again THEN text1 ELSE Rendered
    /\ UNCHANGED <<xmoves, xmeta, xfen, xi, node, xboard, warnings, again>>
    /\ UNCHANGED nonexportvars

(***************************************************************************)
(* export, parse_pgn of the exported text, export of the parsed moves      *)
(***************************************************************************)
\* parse_pgn(text) on the text the first export returned, max_games left at
\* its default, which no input reaches.
RtParseCall ==
    /\ xpc = "done"
    /\ ~again
    /\ ParseCall(MaxGames)

\* read_game reads the tags of the text's one game.
RtBeginGame ==
    /\ xpc = "done"
    /\ Len(blocks) = 0
    /\ BeginGame(text.fenTag)

\* read_game reads the next move token of the text.
RtReadToken ==
    /\ xpc = "done"
    /\ cur.read < Len(text.movetext)
    /\ ~cur.skip
    /\ ReadToken(text.movetext[cur.read + 1])

\* read_game reaches the result token.
RtEndGame ==
    /\ xpc = "done"
    /\ cur.skip \/ cur.read = Len(text.movetext)
    /\ EndGame

\* read_game finds no second game.
RtParseReturn ==
    /\ xpc = "done"
    /\ Len(blocks) = 1
    /\ ParseReturn
    /\ unread' = 0

\* export_to_pgn(parse(...).games[0].moves_uci, metadata, fen_start); the
\* subscript raises IndexError when parse returned no game.
RtExportAgain ==
    /\ xpc = "done"
    /\ ~again
    /\ pgnPc = "done"
    /\ again' = TRUE
    /\ IF Len(result.games) = 0
       THEN /\ xpc' = "raised"
            /\ UNCHANGED <<xmoves, xmeta, xfen, xi, node, xboard, warnings>>
       ELSE Export(result.games[1].moves, xmeta, xfen)
    /\ UNCHANGED <<text, text1>>
    /\ UNCHANGED nonexportvars

(***************************************************************************)
(* EngineService.analyze_position: decoding of the engine's answer         *)
(*                                                                         *)
(* engine.analyse(..., multipv=n) returns a list with one InfoDict per     *)
(* rank, in rank order; the InfoDict of a rank the engine did not report   *)
(* is empty.  A single InfoDict is decoded like a list of one.             *)
(***************************************************************************)
NoScore == <<>>

ScoreInputs == {NoScore, [type |-> "cp", value |-> 30], [type |-> "mate", value |-> -2]}

\* Principal variations: none, one move, two moves, and one whose first move
\* starts on a square that is empty in every position analysed.
PvInputs == { <<>>, <<<<2, 3>>>>, <<<<1, 3>>, <<4, 3>>>>, <<<<4, 2>>>>, <<<<3, 4>>>> }

SlotInputs == [score : ScoreInputs, pv : PvInputs]

InfoLists(n) == UNION {[1..k -> SlotInputs] : k \in 0..n}

\* The positions analysed: FenInputs that parse.
BoardInputs == {BoardFromFen(f) : f \in {g \in FenInputs : ValidFen(g)}}

NoMove == <<>>

\* board.san(move) raises when no piece stands on the move's origin square.
SanRaises(pos, m) == pos.board[m[1]] = "."

\* pv_uci = [move.uci() for move in pv]
PvUci(pv) == [i \in 1..Len(pv) |-> uci(pv[i])]

\* _parse_analysis_info(info, board, multipv): None without a score, without
\* a principal variation, or when an exception is caught; else the BestMove.
ParseInfo(slot, pos, multipv) ==
    IF slot.score = NoScore THEN NoMove
    ELSE IF slot.pv = <<>> THEN NoMove
    ELSE IF SanRaises(pos, slot.pv[1]) THEN NoMove
    ELSE [move |-> uci(slot.pv[1]),
          san |-> san(pos, slot.pv[1]),
          score |-> [type |-> slot.score.type, value |-> slot.score.value],
          pv |-> PvUci(slot.pv),
          multipv |-> multipv]

\* The exception _parse_analysis_info catches and logs.
ParseInfoLogs(slot, pos) ==
    slot.score # NoScore /\ slot.pv # <<>> /\ SanRaises(pos, slot.pv[1])

\* engine.analyse has returned an answer for the position analysed:
\* best_moves = [].
DecodeCall ==
    /\ dpc = "idle"
    /\ dpc' = "loop"
    /\ \E inf \in InfoLists(MaxSlots), pos \in BoardInputs :
          /\ info' = inf
          /\ dboard' = pos
    /\ didx' = 0
    /\ best_moves' = <<>>
    /\ logged' = 0
    /\ UNCHANGED nondecodevars

\* The loop body with the rank taken from the length of best_moves.
DecodeStepRenumbers ==
    /\ dpc = "loop"
    /\ didx < Len(info)
    /\ didx' = didx + 1
    /\ best_moves' =
         IF ParseInfo(info[didx + 1], dboard, Len(best_moves) + 1) # NoMove
         THEN Append(best_moves, ParseInfo(info[didx + 1], dboard, Len(best_moves) + 1))
         ELSE best_moves
    /\ logged' = IF ParseInfoLogs(info[didx + 1], dboard) THEN logged + 1 ELSE logged
    /\ UNCHANGED <<dpc, info, dboard>>
    /\ UNCHANGED nondecodevars

\* The loop body with the exception of board.san ending the decoding.
DecodeStepAborts ==
    /\ dpc = "loop"
    /\ didx < Len(info)
    /\ IF ParseInfoLogs(info[didx + 1], dboard)
       THEN /\ didx' = Len(info)
            /\ best_moves' = <<>>
            /\ logged' = logged + 1
       ELSE /\ didx' = didx + 1
            /\ best_moves' =
                 IF ParseInfo(info[didx + 1], dboard, didx + 1) # NoMove
                 THEN Append(best_moves, ParseInfo(info[didx + 1], dboard, didx + 1))
                 ELSE best_moves
            /\ UNCHANGED logged
    /\ UNCHANGED <<dpc, info, dboard>>
    /\ UNCHANGED nondecodevars

\* One pass of `for idx, pv_info in enumerate(info, start=1)`.
DecodeStep ==
    /\ dpc = "loop"
    /\ didx < Len(info)
    /\ didx' = didx + 1
    /\ best_moves' =
         IF ParseInfo(info[didx + 1], dboard, didx + 1) # NoMove
         THEN Append(best_moves, ParseInfo(info[didx + 1], dboard, didx + 1))
         ELSE best_moves
    /\ logged' = IF ParseInfoLogs(info[didx + 1], dboard) THEN logged + 1 ELSE logged
    /\ UNCHANGED <<dpc, info, dboard>>
    /\ UNCHANGED nondecodevars

\* AnalysisResult(fen, best_moves, depth) is returned.
DecodeReturn ==
    /\ dpc = "loop"
    /\ didx = Len(info)
    /\ dpc' = "done"
    /\ UNCHANGED <<info, dboard, didx, best_moves, logged>>
    /\ UNCHANGED nondecodevars

(***************************************************************************)
(* schemas/mutations.py: _parse_date                                       *)
(*                                                                         *)
(* A str is the sequence of its characters.                                *)
(***************************************************************************)
NoDate == <<>>

NoneStr == <<"None">>

DecDigits == <<"0", "1", "2", "3", "4", "5", "6", "7", "8", "9">>

IsDigit(c) == \E i \in 1..Len(DecDigits) : DecDigits[i] = c

DigitOf(c) == (CHOOSE i \in 1..Len(DecDigits) : DecDigits[i] = c) - 1

\* str.replace("?", "01")
RECURSIVE Replace(_)
Replace(str) ==
    IF str = <<>> THEN <<>>
    ELSE (IF Head(str) = "?" THEN <<"0", "1">> ELSE <<Head(str)>>) \o Replace(Tail(str))

\* str.split("."): the pieces between the dots, `piece` being the one begun.
RECURSIVE SplitFrom(_, _)
SplitFrom(str, piece) ==
    IF str = <<>> THEN <<piece>>
    ELSE IF Head(str) = "." THEN <<piece>> \o SplitFrom(Tail(str), <<>>)
    ELSE SplitFrom(Tail(str), Append(piece, Head(str)))

Split(str) == SplitFrom(str, <<>>)

\* int(str) raises ValueError unless str is a non-empty run of digits.
IntParses(str) == str # <<>> /\ \A i \in 1..Len(str) : IsDigit(str[i])

RECURSIVE IntFrom(_, _)
IntFrom(str, n) ==
    IF str = <<>> THEN n ELSE IntFrom(Tail(str), 10 * n + DigitOf(Head(str)))

int(str) == IntFrom(str, 0)

IsLeap(y) == (y % 4 = 0 /\ y % 100 # 0) \/ y % 400 = 0

DaysInMonth(y, m) ==
    IF m = 2 THEN (IF IsLeap(y) THEN 29 ELSE 28)
    ELSE IF m \in {4, 6, 9, 11} THEN 30
    ELSE 31

\* datetime(year, month, day) raises ValueError outside these ranges.
DatetimeOk(y, m, d) ==
    /\ y \in 1..9999
    /\ m \in 1..12
    /\ d \in 1..DaysInMonth(y, m)

Placeholder == <<"?", "?", "?", "?", ".", "?", "?", ".", "?", "?">>

\* _parse_date(date_str)
parse_date(str) ==
    IF str = NoneStr \/ str = <<>> \/ str = Placeholder THEN NoDate
    ELSE LET parts == Split(Replace(str))
         IN IF Len(parts) = 3
               /\ \A i \in 1..3 : IntParses(parts[i])
               /\ DatetimeOk(int(parts[1]), int(parts[2]), int(parts[3]))
            THEN [year |-> int(parts[1]), month |-> int(parts[2]), day |-> int(parts[3])]
            ELSE NoDate

\* Date tags a game may carry: year, month and day each known, unknown or
\* out of range; a tag with two components; an empty tag; no tag.
YearInputs == { <<"2", "0", "2", "3">>, <<"2", "0", "2", "4">>, <<"?", "?", "?", "?">>,
                <<"2", "0", "?", "?">> }

MonthInputs == { <<"0", "5">>, <<"0", "2">>, <<"1", "3">>, <<"?", "?">>, <<"?">> }

DayInputs == { <<"1", "7">>, <<"2", "9">>, <<"3", "1">>, <<"?", "?">>, <<"?">> }

Dotted(y, m, d) == y \o <<".">> \o m \o <<".">> \o d

DateInputs ==
    {Dotted(y, m, d) : y \in YearInputs, m \in MonthInputs, d \in DayInputs}
        \cup {y \o <<".">> \o m : y \in YearInputs, m \in MonthInputs}
        \cup {NoneStr, <<>>}

ParseDateCall(str) ==
    /\ tpc = "idle"
    /\ tpc' = "done"
    /\ date_str' = str
    /\ date' = parse_date(str)
    /\ UNCHANGED nondatevars

(***************************************************************************)
(* get_engine_service: the module's one EngineService and its callers      *)
(* (startup_event, Query.analyze_position)                                 *)
(***************************************************************************)
\* get_engine_service() is called.  With _engine_service None the service
\* is created and assigned, and start() runs to `await popen_uci(...)`;
\* else the service is returned as it is.
GetCall(t) ==
    /\ pc[t] = "idle"
    /\ IF service = 0
       THEN /\ service' = 1
            /\ StartCall(t)
            /\ UNCHANGED got
       ELSE /\ got' = [got EXCEPT ![t] = TRUE]
            /\ Finish(t, "service")
            /\ UNCHANGED <<service, engine, lockHolder, lockWaiters, handle, procState,
                           quits, callOrder, failed, afterFail>>
            /\ UNCHANGED purevars

\* start() returns and get_engine_service returns the service.
GetStarted(t) ==
    /\ StartSpawnOk(t)
    /\ got' = [got EXCEPT ![t] = TRUE]
    /\ UNCHANGED service

\* start() raises out of get_engine_service; _engine_service stays assigned.
GetFailed(t) ==
    /\ StartSpawnFail(t)
    /\ UNCHANGED svars

\* analyze_position is called on the service get_engine_service returned.
ServiceAnalyze(t, fen) ==
    /\ got[t]
    /\ AnalyzeCall(t, fen)
    /\ UNCHANGED svars

ServiceAnalyzeReturn(t, out) ==
    /\ AnalyzeReturn(t, out)
    /\ UNCHANGED svars

(***************************************************************************)
(* The session under concurrent callers                                    *)
(***************************************************************************)
PgnIdle ==
    /\ pgnPc = "idle"
    /\ max_games = 0
    /\ game_count = 0
    /\ games = <<>>
    /\ errors = <<>>
    /\ cur = NoGame
    /\ result = NoResult
    /\ nIllegal = 0
    /\ nBadHeader = 0
    /\ blocks = <<>>
    /\ unread = 0

ExportIdle ==
    /\ xpc = "idle"
    /\ xmoves = <<>>
    /\ xmeta = NoMeta
    /\ xfen = NoFen
    /\ xi = 0
    /\ node = <<>>
    /\ xboard = BoardFromFen(STARTING_FEN)
    /\ warnings = 0
    /\ text = NoText
    /\ text1 = NoText
    /\ again = FALSE

DecodeIdle ==
    /\ dpc = "idle"
    /\ info = <<>>
    /\ dboard = BoardFromFen(STARTING_FEN)
    /\ didx = 0
    /\ best_moves = <<>>
    /\ logged = 0

DateIdle ==
    /\ tpc = "idle"
    /\ date_str = NoneStr
    /\ date = NoDate

ServiceIdle ==
    /\ service = 0
    /\ got = [t \in Tasks |-> FALSE]

EngineIdle ==
    /\ engine = 0
    /\ lockHolder = 0
    /\ lockWaiters = <<>>
    /\ pc = [t \in Tasks |-> "idle"]
    /\ handle = [t \in Tasks |-> 0]
    /\ procState = [p \in Procs |-> "none"]
    /\ quits = [p \in Procs |-> 0]
    /\ callOrder = <<>>
    /\ failed = FALSE
    /\ afterFail = [t \in Tasks |-> FALSE]
    /\ ret = Returned(0, "none", TRUE, FALSE)

Init == EngineIdle /\ ServiceIdle /\ PgnIdle /\ ExportIdle /\ DecodeIdle /\ DateIdle

Next ==
    \/ \E t \in Tasks : StartCall(t) /\ UNCHANGED svars
    \/ \E t \in Tasks : StartResume(t) /\ UNCHANGED svars
    \/ \E t \in Tasks : StartSpawnOk(t) /\ UNCHANGED svars
    \/ \E t \in Tasks : StartSpawnFail(t) /\ UNCHANGED svars
    \/ \E t \in Tasks : StopCall(t) /\ UNCHANGED svars
    \/ \E t \in Tasks : StopResume(t) /\ UNCHANGED svars
    \/ \E t \in Tasks : StopDone(t) /\ UNCHANGED svars
    \/ \E t \in Tasks, fen \in FenInputs : AnalyzeCall(t, fen) /\ UNCHANGED svars
    \/ \E t \in Tasks, out \in {"result", "garbled", "terminated"} :
          AnalyzeReturn(t, out) /\ UNCHANGED svars

Spec == Init /\ [][Next]_vars

(***************************************************************************)
(* parse_pgn on its own                                                    *)
(***************************************************************************)
InitPgn == EngineIdle /\ ServiceIdle /\ PgnIdle /\ ExportIdle /\ DecodeIdle /\ DateIdle

NextPgn ==
    \/ \E mg \in 1..MaxGames : ParseCall(mg)
    \/ \E tag \in FenTags : BeginGame(tag)
    \/ \E tok \in SanTokens : ReadToken(tok)
    \/ EndGame
    \/ ParseReturn

SpecPgn == InitPgn /\ [][NextPgn]_vars

(***************************************************************************)
(* export_to_pgn and the round trip through parse_pgn                      *)
(***************************************************************************)
InitExport == EngineIdle /\ ServiceIdle /\ PgnIdle /\ ExportIdle /\ DecodeIdle /\ DateIdle

NextExport ==
    \/ ExportCall
    \/ ExportStep
    \/ ExportReturn
    \/ RtParseCall
    \/ RtBeginGame
    \/ RtReadToken
    \/ RtEndGame
    \/ RtParseReturn
    \/ RtExportAgain

SpecExport == InitExport /\ [][NextExport]_vars

(***************************************************************************)
(* The decoding on its own                                                 *)
(***************************************************************************)
InitDecode == EngineIdle /\ ServiceIdle /\ PgnIdle /\ ExportIdle /\ DecodeIdle /\ DateIdle

NextDecode ==
    \/ DecodeCall
    \/ DecodeStep
    \/ DecodeReturn

SpecDecode == InitDecode /\ [][NextDecode]_vars

(***************************************************************************)
(* _parse_date on its own                                                  *)
(***************************************************************************)
InitDate == EngineIdle /\ ServiceIdle /\ PgnIdle /\ ExportIdle /\ DecodeIdle /\ DateIdle

NextDate == \E str \in DateInputs : ParseDateCall(str)

SpecDate == InitDate /\ [][NextDate]_vars

(***************************************************************************)
(* The callers of get_engine_service                                       *)
(***************************************************************************)
InitService ==
    EngineIdle /\ ServiceIdle /\ PgnIdle /\ ExportIdle /\ DecodeIdle /\ DateIdle

NextService ==
    \/ \E t \in Tasks : GetCall(t)
    \/ \E t \in Tasks : GetStarted(t)
    \/ \E t \in Tasks : GetFailed(t)
    \/ \E t \in Tasks, fen \in FenInputs : ServiceAnalyze(t, fen)
    \/ \E t \in Tasks, out \in {"result", "garbled", "terminated"} :
          ServiceAnalyzeReturn(t, out)

SpecService == InitService /\ [][NextService]_vars

(***************************************************************************)
(* Properties of the session                                               *)
(***************************************************************************)
LiveProcs == {p \in Procs : procState[p] = "alive"}

SessionFrame == <<engine, lockHolder, lockWaiters, pc, handle, procState, quits,
                  callOrder, failed>>

\* C1: at most one analysis is in flight on a session at any time: a
\* request's position and search commands are handed to the engine only when
\* no other request is still awaiting its terminal result.
C1_OneAnalysisInFlight == Len(callOrder) <= 1

\* C2: a session owns at most one live engine process in every reachable
\* state, whatever the interleaving of start(), stop() and analyze().
C2_AtMostOneLiveProcess == Cardinality(LiveProcs) <= 1

\* C3: concurrent analyses complete in the order in which they were admitted
\* to the engine: the one that returns is the oldest one outstanding.
C3_CompleteInCallOrder ==
    [][\A t \in Tasks :
         (pc[t] = "analysing" /\ pc'[t] = "idle") => t = Head(callOrder)]_vars

\* C4: analyze() on a session without an engine fails with the not-ready
\* error for every FEN, parseable or not, sends nothing to any process and
\* leaves the session as it was.
C4_NotReadyBeforeFen ==
    [][\A t \in Tasks, fen \in FenInputs :
         (engine = 0 /\ AnalyzeCall(t, fen)) =>
             /\ ret'.task = t
             /\ ret'.how = "not_ready"
             /\ UNCHANGED SessionFrame]_vars

C4_Witness ==
    /\ engine = 0
    /\ ret.how = "not_ready"
    /\ ~ret.fenOk
    /\ \E p \in Procs : procState[p] = "exited"

\* C5: once an analysis has raised an engine error the session is Failed:
\* no analyze() called afterwards returns a result until the engine has been
\* stopped and started again.
C5_FailedUntilRestart == ~(ret.how = "result" /\ ret.afterFail)

\* C6: a start() that fails raises to its caller, leaves the session Stopped
\* with no process handle, and has released the guard.
C6_FailedStartLeavesStopped ==
    [][\A t \in Tasks :
         StartSpawnFail(t) =>
             /\ ret'.task = t
             /\ ret'.how = "unavailable"
             /\ engine' = 0
             /\ lockHolder' # t]_vars

\* C7: start() on a session that already has an engine is a no-op: nothing
\* is spawned, the handle and the rest of the session stay as they were.
C7_StartWhenReadyIsNoOp ==
    [][\A t \in Tasks :
         (engine # 0 /\ StartCall(t)) =>
             /\ ret'.task = t
             /\ ret'.how = "already_started"
             /\ UNCHANGED SessionFrame]_vars

C7_Witness ==
    /\ ret.how = "already_started"
    /\ engine # 0
    /\ procState[engine] = "alive"
    /\ Cardinality(LiveProcs) = 1

\* C8: stop() is idempotent: on a Stopped session it returns without error
\* and changes nothing; a stop() that completes leaves the session Stopped
\* with the process exited, and a process is sent the quit command once.
C8_StopIdempotent ==
    [][/\ \A t \in Tasks :
            (engine = 0 /\ StopCall(t)) =>
                /\ ret'.task = t
                /\ ret'.how = "not_running"
                /\ UNCHANGED SessionFrame
       /\ \A t \in Tasks :
            StopDone(t) =>
                /\ engine' = 0
                /\ procState'[handle[t]] = "exited"
                /\ quits'[handle[t]] = 1
       /\ \A p \in Procs : quits'[p] <= 1]_vars

C8_Witness ==
    /\ engine = 0
    /\ ret.how = "not_running"
    /\ \E p \in Procs : procState[p] = "exited" /\ quits[p] = 1

(***************************************************************************)
(* Properties of parse_pgn                                                 *)
(***************************************************************************)
\* C9: when every block read has a well-formed header and K of the N blocks
\* hold a move token that is illegal where it stands, parse returns
\* games_parsed = N - K and K error messages: a game with an illegal move is
\* left out of games entirely.
C9_IllegalGamesExcluded ==
    (pgnPc = "done" /\ nBadHeader = 0) =>
        /\ result.games_parsed = game_count - nIllegal
        /\ Len(result.errors) = nIllegal
        /\ result.success = (game_count - nIllegal > 0)

\* Replaying the uci list from `board`, one legal move at a time, with the
\* san list read on the same boards: every uci is a legal move, every san
\* parses on the board before its move to that very move, and the end
\* position has the FEN `final`.
RECURSIVE ReplayAgrees(_, _, _, _)
ReplayAgrees(board, ucis, sans, final) ==
    IF ucis = <<>> THEN sans = <<>> /\ board_fen(board) = final
    ELSE /\ sans # <<>>
         /\ UciWellFormed(Head(ucis))
         /\ from_uci(Head(ucis)) \in legal_moves(board)
         /\ SanParses(board, Head(sans))
         /\ parse_san(board, Head(sans)) = from_uci(Head(ucis))
         /\ ReplayAgrees(push(board, from_uci(Head(ucis))), Tail(ucis), Tail(sans), final)

GameConsistent(g) ==
    /\ Len(g.moves) = g.move_count
    /\ Len(g.moves_san) = g.move_count
    /\ ValidFen(g.fen_start)
    /\ ReplayAgrees(BoardFromFen(g.fen_start), g.moves, g.moves_san, g.fen_final)

Ordinals(bs, b) == SelectSeq([i \in 1..Len(bs) |-> i], LAMBDA i : bs[i] = b)

\* C11: a game block that fails adds exactly one message to errors and
\* leaves games and the loop as they are, so every block read after it is
\* still parsed; the outcome has success = (games_parsed > 0) and
\* games_parsed = len(games), with one game per block that did not fail and
\* one message per block that did.
C11_FailedBlockIsolated ==
    [][/\ (pgnPc = "game" /\ pgnPc' = "loop" /\ ~HeaderOk(cur)) =>
            /\ Len(errors') = Len(errors) + 1
            /\ games' = games
            /\ max_games' = max_games
            /\ game_count' = game_count + 1
       /\ pgnPc' = "done" =>
            /\ result'.success = (result'.games_parsed > 0)
            /\ result'.games_parsed = Len(result'.games)
            /\ Len(result'.games) = Len(Ordinals(blocks', TRUE))
            /\ Len(result'.errors) = Len(Ordinals(blocks', FALSE))]_vars

C11_Witness ==
    /\ pgnPc = "done"
    /\ blocks = <<FALSE, TRUE>>
    /\ result.success
    /\ result.games_parsed = 1
    /\ Len(result.errors) = 1
    /\ result.games[1].move_count > 0

\* C12: parse consumes at most max_games blocks: games_parsed + len(errors)
\* <= max_games, what the input holds beyond the limit is neither parsed nor
\* reported, and the error messages carry the 1-based input ordinals of the
\* failing blocks.
C12_AtMostMaxGames ==
    /\ game_count <= max_games
    /\ Len(blocks) <= max_games
    /\ Len(games) + Len(errors) = game_count
    /\ pgnPc = "done" =>
          /\ result.games_parsed + Len(result.errors) <= max_games
          /\ result.games_parsed + Len(result.errors) = Len(blocks)
          /\ result.errors = Ordinals(blocks, FALSE)

C12_Witness ==
    /\ pgnPc = "done"
    /\ unread > 0
    /\ max_games = 2
    /\ blocks = <<TRUE, FALSE>>
    /\ result.errors = <<2>>
    /\ result.games_parsed = 1

(***************************************************************************)
(* Properties of export_to_pgn                                             *)
(***************************************************************************)
\* The moves of a list that are legal where their turn comes, replaying from
\* `board` and leaving the board alone at every other entry.
RECURSIVE LegalSubsequence(_, _)
LegalSubsequence(board, ucis) ==
    IF ucis = <<>> THEN <<>>
    ELSE IF UciWellFormed(Head(ucis)) /\ from_uci(Head(ucis)) \in legal_moves(board)
    THEN <<from_uci(Head(ucis))>>
             \o LegalSubsequence(push(board, from_uci(Head(ucis))), Tail(ucis))
    ELSE LegalSubsequence(board, Tail(ucis))

SkippedHere ==
    \/ ~UciWellFormed(xmoves[xi + 1])
    \/ from_uci(xmoves[xi + 1]) \notin legal_moves(xboard)

\* C13: once its loop is entered export does not fail: a move that is
\* malformed or not legal on the replay board is skipped with one warning
\* and leaves board and mainline alone, the loop goes on to the next move,
\* and the text returned holds exactly the moves that were legal at their
\* point of replay, in order.
C13_ExportSkipsIllegalMoves ==
    [][/\ xpc = "loop" => xpc' \in {"loop", "done"}
       /\ (xpc = "loop" /\ xpc' = "loop" /\ SkippedHere) =>
            /\ xboard' = xboard
            /\ node' = node
            /\ warnings' = warnings + 1
            /\ xi' = xi + 1
       /\ (xpc = "loop" /\ xpc' = "done") =>
            /\ xi = Len(xmoves)
            /\ node = LegalSubsequence(StartBoard(xfen), xmoves)
            /\ warnings = Len(xmoves) - Len(node)
            /\ text'.movetext = Walk(StartBoard(xfen), node).moves_san
            /\ Len(text'.movetext) = Len(node)]_vars

C13_Witness ==
    /\ xpc = "done"
    /\ ~again
    /\ Len(xmoves) = 2
    /\ ~UciWellFormed(xmoves[1])
    /\ Len(text.movetext) = 1
    /\ warnings = 1

\* C14: exporting, parsing the exported text and exporting the first parsed
\* game's moves with the same metadata and start FEN gives the text of the
\* first export again; the parse of an exported text always has a first
\* game.
C14_RoundTripIdempotent ==
    /\ again => xpc # "raised"
    /\ (again /\ xpc = "done") => text = text1

C14_Witness ==
    /\ again
    /\ xpc = "done"
    /\ text = text1
    /\ text.fenTag # NoFen
    /\ Len(text.movetext) = 2
    /\ warnings = 0
    /\ text.headers # Headers(NoMeta)
    /\ \E k \in 1..2 : text.movetext[k][1] # 0

(***************************************************************************)
(* Properties of the decoding                                              *)
(***************************************************************************)
Ranks(bms) == [i \in 1..Len(bms) |-> bms[i].multipv]

SlotsWith(P(_)) == SelectSeq([i \in 1..Len(info) |-> i], P)

HasPv(k) == info[k].pv # <<>>

Usable(k) ==
    /\ info[k].pv # <<>>
    /\ info[k].score # NoScore
    /\ ~SanRaises(dboard, info[k].pv[1])

\* C15 as stated: the candidates are exactly the slots with a non-empty
\* principal variation, each with its slot's rank, in ascending rank order.
C15_CandidatesAreSlotsWithPv ==
    dpc = "done" => Ranks(best_moves) = SlotsWith(HasPv)

\* C15: the candidates are exactly the slots that carry a score and a
\* non-empty principal variation whose first move converts to SAN, each
\* with its slot's rank and its own first move, in strictly ascending rank
\* order; no other slot yields a candidate and no rank is made up.
C15_CandidatesAreUsableSlots ==
    /\ \A i \in 1..Len(best_moves) :
          /\ best_moves[i].multipv \in 1..didx
          /\ Usable(best_moves[i].multipv)
          /\ best_moves[i].move = uci(info[best_moves[i].multipv].pv[1])
          /\ i > 1 => best_moves[i - 1].multipv < best_moves[i].multipv
    /\ dpc = "done" => Ranks(best_moves) = SlotsWith(Usable)

C15_Witness ==
    /\ dpc = "done"
    /\ Len(info) = 2
    /\ ~HasPv(1)
    /\ Usable(2)
    /\ Ranks(best_moves) = <<2>>

\* C16: when board.san fails on the first move of a slot's principal
\* variation, the decoding logs it, drops that slot alone and goes on; every
\* other slot whose conversion succeeds is returned with its own rank.
C16_SanFailureDropsOneSlot ==
    [][/\ (dpc = "loop" /\ didx' = didx + 1 /\ ParseInfoLogs(info[didx + 1], dboard)) =>
            /\ dpc' = "loop"
            /\ best_moves' = best_moves
            /\ logged' = logged + 1
       /\ (dpc = "loop" /\ dpc' = "done") =>
            /\ didx = Len(info)
            /\ \A k \in 1..Len(info) :
                  Usable(k) => \E i \in 1..Len(best_moves) :
                                  /\ best_moves[i].multipv = k
                                  /\ best_moves[i].san = san(dboard, info[k].pv[1])
            /\ \A i \in 1..Len(best_moves) :
                  ~ParseInfoLogs(info[best_moves[i].multipv], dboard)]_vars

C16_Witness ==
    /\ dpc = "done"
    /\ Len(info) = 2
    /\ ParseInfoLogs(info[1], dboard)
    /\ Usable(2)
    /\ logged = 1
    /\ Ranks(best_moves) = <<2>>

(***************************************************************************)
(* Properties of _parse_date                                               *)
(***************************************************************************)
AllPlaceholders(str) == str # <<>> /\ \A i \in 1..Len(str) : str[i] = "?"

\* A component's number: 1 when it is written as placeholders.
Component(str) == IF AllPlaceholders(str) THEN 1 ELSE int(str)

Resolvable(str) == AllPlaceholders(str) \/ IntParses(str)

\* C17: a date of three components, each digits or all placeholders, is
\* normalized with 01 standing for every component written as
\* placeholders, and is None when that is no date; ????.??.?? and an absent
\* or empty date give None.
C17_DateNormalized ==
    tpc = "done" =>
        IF date_str \in {NoneStr, <<>>, Placeholder} THEN date = NoDate
        ELSE LET parts == Split(date_str)
             IN (Len(parts) = 3 /\ \A i \in 1..3 : Resolvable(parts[i])) =>
                  date = IF DatetimeOk(Component(parts[1]), Component(parts[2]),
                                       Component(parts[3]))
                         THEN [year |-> Component(parts[1]),
                               month |-> Component(parts[2]),
                               day |-> Component(parts[3])]
                         ELSE NoDate

(***************************************************************************)
(* Properties of get_engine_service and of stop during an analysis         *)
(***************************************************************************)
\* C18: a get_engine_service() call made after an earlier one failed (the
\* service exists, no engine is running, no call is in progress) attempts
\* start() again.
C18_RetriesStartAfterFailure ==
    [][\A t \in Tasks :
         (/\ service # 0
          /\ engine = 0
          /\ \A u \in Tasks : pc[u] = "idle"
          /\ GetCall(t)) => pc'[t] = "start_spawn"]_vars

\* C19: while an analysis is in flight the session keeps its handle, and
\* the process the analysis runs on has not been sent quit and has not
\* been made to exit.
C19_NoStopDuringAnalysis ==
    \A t \in Tasks :
        pc[t] = "analysing" =>
            /\ engine # 0
            /\ quits[handle[t]] = 0
            /\ procState[handle[t]] # "exited"

\* C20: whenever get_engine_service() returns the service to a caller the
\* engine is running, and no analyze_position call on a returned service
\* fails with the not-started error.
C20_ReturnedServiceIsRunning ==
    [][/\ \A t \in Tasks :
            (/\ ret' # ret \/ got' # got
             /\ ret'.task = t
             /\ ret'.how \in {"service", "started"}) => engine' # 0
       /\ \A t \in Tasks : (ret' # ret /\ ret'.task = t /\ got[t]) => ret'.how # "not_ready"]_vars

\* C21: of two stop() calls that overlap on a started session, the one that
\* waited for the lock finds the handle still present when it is handed the
\* lock and goes on to quit() instead of raising; no process is sent the
\* quit command twice, and the stop() that completes leaves the session
\* Stopped.
C21_OverlappingStopsComplete ==
    [][/\ \A t \in Tasks :
            (pc[t] = "stop_wait" /\ StopResume(t)) =>
                /\ engine # 0
                /\ pc'[t] = "stop_quit"
                /\ ret'.how # "attribute_error"
       /\ \A p \in Procs : quits'[p] <= 1
       /\ \A t \in Tasks : (pc[t] = "stop_quit" /\ StopDone(t)) => engine' = 0]_vars

====
